---------------------------- MODULE Spec2Model ----------------------------
(***************************************************************************)
(* The datadog_logs sink of src/sinks/datadog/logs.rs: its configuration,  *)
(* the two encoding adapters (JSON and text), the shared build_request,    *)
(* sink construction (build / build_sink), the healthcheck, and the        *)
(* batched HTTP sink that build_sink constructs (batch buffer, request     *)
(* policy layer, acknowledgment sequencer).                                *)
(*                                                                         *)
(* Byte strings are kept run-length encoded: a byte string is a sequence   *)
(* of chunks, and a chunk is a run of n equal bytes, the serialization of  *)
(* one JSON value, or the gzip stream of a byte string.  ByteLen gives the *)
(* number of bytes of a byte string.                                       *)
(***************************************************************************)
EXTENDS Integers, Sequences, FiniteSets, TLC

VARIABLES
    cfg,          \* the DatadogLogsConfig the sink is built from
    schema,       \* log_schema(): the global message/timestamp/host keys
    dest,         \* how the destination behaves: "accept" or "flaky"
    built,        \* what SinkConfig::build has produced so far
    input,        \* the events pulled from the upstream stream so far
    streamEnded,  \* the upstream stream has ended
    outcomes,     \* what became of each event: dropped, rejected, accepted
    buffer,       \* the batch buffer: the encoded items not yet finalized
    batches,      \* the finalized batches, in submission order
    received,     \* the requests the destination has accepted, in order
    acked,        \* the acknowledgments delivered to the upstream acker
    runDone,      \* sink.run has returned
    hc            \* the healthcheck future: its position and its outcome

vars == <<cfg, schema, dest, built, input, streamEnded, outcomes, buffer,
          batches, received, acked, runDone, hc>>

runVars == <<input, streamEnded, outcomes, buffer, batches, received, acked,
             runDone>>

-----------------------------------------------------------------------------
(* Bounds of the model *)

\* the number of events the upstream stream delivers before it ends
MaxEvents == 2

\* the retry attempt cap of the request policy layer (a setting of the sink)
MaxAttempts == 2

-----------------------------------------------------------------------------
(* Option and Result *)

None == [some |-> FALSE]

Some(v) == [some |-> TRUE, v |-> v]

UnwrapOr(o, d) == IF o.some THEN o.v ELSE d

Ok(v) == [ok |-> TRUE, v |-> v]

Err(kind, msg) == [ok |-> FALSE, kind |-> kind, msg |-> msg]

-----------------------------------------------------------------------------
(* Byte strings *)

NL == 10

\* n bytes, each equal to c
Run(c, n) == IF n = 0 THEN <<>> ELSE <<[t |-> "run", ch |-> c, n |-> n]>>

RECURSIVE Flatten(_)
Flatten(ss) == IF ss = <<>> THEN <<>> ELSE Head(ss) \o Flatten(Tail(ss))

\* the size of the gzip stream of n bytes: the 10-byte header, the 8-byte
\* trailer and the deflate payload, taken at the size of one stored block
GzipLen(n) == 18 + 5 + n

RECURSIVE ByteLen(_), JsonFieldsLen(_, _), JsonObjectLen(_), JsonElemsLen(_)

\* serde_json's rendering of a log whose values are strings: {"k":"v",...}
JsonFieldsLen(o, K) ==
    IF K = {} THEN 0
    ELSE LET k == CHOOSE x \in K : TRUE
         IN  Len(k) + 2 + 1 + ByteLen(o[k]) + 2 + JsonFieldsLen(o, K \ {k})

JsonObjectLen(o) ==
    LET n == Cardinality(DOMAIN o)
    IN  2 + JsonFieldsLen(o, DOMAIN o) + (IF n = 0 THEN 0 ELSE n - 1)

JsonElemsLen(a) ==
    IF a = <<>> THEN 0 ELSE JsonObjectLen(Head(a)) + JsonElemsLen(Tail(a))

\* serde_json's rendering of an array of logs: [{...},{...}]
JsonArrayLen(a) ==
    2 + JsonElemsLen(a) + (IF a = <<>> THEN 0 ELSE Len(a) - 1)

ChunkLen(c) ==
    CASE c.t = "run"  -> c.n
      [] c.t = "json" -> JsonArrayLen(c.v)
      [] c.t = "gzip" -> GzipLen(ByteLen(c.data))

ByteLen(b) == IF b = <<>> THEN 0 ELSE ChunkLen(Head(b)) + ByteLen(Tail(b))

-----------------------------------------------------------------------------
(* Logs, events and the global log schema *)

Remove(log, k) == [x \in DOMAIN log \ {k} |-> log[x]]

Insert(log, k, v) ==
    [x \in DOMAIN log \cup {k} |-> IF x = k THEN v ELSE log[x]]

\* log_schema(): the default keys, and keys an operator has renamed
Schemas ==
    { [message_key |-> "message", timestamp_key |-> "timestamp",
       host_key |-> "host"],
      [message_key |-> "msg", timestamp_key |-> "ts", host_key |-> "hostname"] }

\* the rendering of an event's timestamp
Timestamp == Run(48, 20)

\* the i-th line of the input: n bytes, each the letter 96 + i
Line(i, n) == Run(96 + i, n)

\* Event::from(line): the line under the message key, and a timestamp
EventFrom(sch, line) ==
    Insert(Insert(<<>>, sch.message_key, line), sch.timestamp_key, Timestamp)

-----------------------------------------------------------------------------
(* DatadogLogsConfig *)

CompressionNone == [kind |-> "none", level |-> None]

Gzip(level) == [kind |-> "gzip", level |-> level]

DefaultEndpoint == "https://http-intake.logs.datadoghq.eu/v1/input"

get_endpoint(c) == UnwrapOr(c.endpoint, DefaultEndpoint)

\* bytesize::kib
Kib(n) == n * 1024

\* BatchSettings::default(): no limit on the number of events
BatchSettingsDefault ==
    [size |-> [bytes |-> None, events |-> None], timeout |-> None]

\* BatchSettings::parse_config: the configured thresholds over the defaults;
\* a threshold below its minimum of 1 is an error
parse_config(settings, batch) ==
    IF batch.max_bytes.some /\ batch.max_bytes.v < 1
      THEN Err("BatchError", <<"InvalidMaxBytes">>)
    ELSE IF batch.max_events.some /\ batch.max_events.v < 1
      THEN Err("BatchError", <<"InvalidMaxEvents">>)
    ELSE IF batch.timeout_secs.some /\ batch.timeout_secs.v < 1
      THEN Err("BatchError", <<"InvalidTimeout">>)
    ELSE Ok([size |->
               [bytes  |-> IF batch.max_bytes.some THEN batch.max_bytes
                           ELSE settings.size.bytes,
                events |-> IF batch.max_events.some THEN batch.max_events
                           ELSE settings.size.events],
             timeout |-> IF batch.timeout_secs.some THEN batch.timeout_secs
                         ELSE settings.timeout])

batch_settings_ignoring_config(c) ==
    Ok([size |-> [bytes |-> Some(Kib(100)), events |-> None],
        timeout |-> Some(1)])

batch_settings(c) ==
    parse_config([size |-> [bytes |-> Some(Kib(100)),
                            events |-> BatchSettingsDefault.size.events],
                  timeout |-> Some(1)],
                 c.batch)

\* GzEncoder: the gzip stream of a byte string at a level
GzEncode(body, level) ==
    <<[t |-> "gzip", level |-> level, data |-> body]>>

DefaultGzipLevel == 6

build_request_length_before_compression(c, body) ==
    LET compression == UnwrapOr(c.compression, Gzip(None))
        gzip == compression.kind # "none"
        headers == Insert(Insert(<<>>, "Content-Type", "text/plain"),
                          "DD-API-KEY", c.api_key)
    IN  Ok([method |-> "POST", uri |-> get_endpoint(c),
            headers |-> IF gzip THEN Insert(headers, "Content-Encoding", "gzip")
                        ELSE headers,
            content_length |-> ByteLen(body),
            body |-> IF gzip
                       THEN GzEncode(body, UnwrapOr(compression.level,
                                                    DefaultGzipLevel))
                       ELSE body])

\* DatadogLogsConfig::build_request
build_request(c, body) ==
    LET uri == get_endpoint(c)
        request == [method |-> "POST", uri |-> uri,
                    headers |-> Insert(Insert(<<>>, "Content-Type", "text/plain"),
                                       "DD-API-KEY", c.api_key)]
        compression == UnwrapOr(c.compression, Gzip(None))
        pair == IF compression.kind = "none"
                  THEN <<request, body>>
                  ELSE LET level == UnwrapOr(compression.level, DefaultGzipLevel)
                       IN  <<[request EXCEPT !.headers =
                                 Insert(@, "Content-Encoding", "gzip")],
                             GzEncode(body, level)>>
    IN  Ok([method |-> pair[1].method, uri |-> pair[1].uri,
            headers |-> pair[1].headers,
            content_length |-> ByteLen(pair[2]),
            body |-> pair[2]])

-----------------------------------------------------------------------------
(* The encoding adapters: DatadogLogsJsonService, DatadogLogsTextService *)

\* EncodingConfig::apply_rules of a configuration that states no field rules
apply_rules(c, log) == log

MoveKey(log, from, to) ==
    IF from \in DOMAIN log THEN Insert(Remove(log, from), to, log[from])
    ELSE log

\* DatadogLogsJsonService::encode_event
JsonEncodeEvent(c, sch, event) ==
    LET l1 == MoveKey(event, sch.message_key, "message")
        l2 == MoveKey(l1, sch.timestamp_key, "date")
        l3 == MoveKey(l2, sch.host_key, "host")
    IN  Some(apply_rules(c, l3))

\* serde_json::to_vec of the batch: one JSON array
ToVec(events) == <<[t |-> "json", v |-> events]>>

\* DatadogLogsJsonService::build_request
JsonBuildRequest(c, events) == build_request(c, ToVec(events))

\* sinks::util::encode_event with the text codec: the bytes of the message
\* (none, for an event without one) and a newline
TextEncodeEvent(c, sch, event) ==
    LET log == apply_rules(c, event)
        bytes == IF sch.message_key \in DOMAIN log
                   THEN log[sch.message_key] ELSE <<>>
    IN  Some(bytes \o Run(NL, 1))

TextBuildRequestDroppingLast(c, events) ==
    build_request(c, Flatten(SubSeq(events, 1, Len(events) - 1)))

\* DatadogLogsTextService::build_request
TextBuildRequest(c, events) == build_request(c, Flatten(events))

\* HttpSink::encode_event of the service build selected
encode_event(c, sch, event) ==
    IF c.encoding = "json" THEN JsonEncodeEvent(c, sch, event)
    ELSE TextEncodeEvent(c, sch, event)

\* HttpSink::build_request of the service build selected
service_build_request(c, events) ==
    IF c.encoding = "json" THEN JsonBuildRequest(c, events)
    ELSE TextBuildRequest(c, events)

-----------------------------------------------------------------------------
(* The configurations and the initial state *)

BatchConfigs ==
    { [max_events |-> None,    max_bytes |-> None,        timeout_secs |-> None],
      [max_events |-> Some(1), max_bytes |-> None,        timeout_secs |-> None],
      [max_events |-> Some(2), max_bytes |-> Some(60004), timeout_secs |-> None],
      [max_events |-> None,    max_bytes |-> Some(0),     timeout_secs |-> None],
      [max_events |-> Some(0), max_bytes |-> None,        timeout_secs |-> None] }

\* TowerRequestConfig: the in-flight limit, when the configuration states one
RequestConfigs == { [in_flight_limit |-> None], [in_flight_limit |-> Some(1)] }

\* TowerRequestConfig::default(): the in-flight limit
DefaultInFlightLimit == 5

\* TowerRequestConfig::unwrap_with
unwrap_with(request, default_limit) ==
    [in_flight_limit |-> UnwrapOr(request.in_flight_limit, default_limit)]

Compressions == { None, Some(CompressionNone), Some(Gzip(None)), Some(Gzip(Some(9))) }

Configs ==
    [ endpoint    : { None, Some("http://127.0.0.1:1234") },
      api_key     : { "atoken" },
      encoding    : { "json", "text" },
      compression : Compressions,
      batch       : BatchConfigs,
      request     : RequestConfigs ]

NotBuilt ==
    [state |-> "config", error |-> None, client |-> FALSE,
     healthcheck |-> FALSE, sink |-> FALSE, service |-> "none",
     batch |-> "none", settings |-> None, limit |-> 0]

HcNotPolled ==
    [pc |-> "start", req |-> None, sent |-> 0, response |-> None,
     result |-> None]

DefaultSchema == CHOOSE sch \in Schemas : sch.message_key = "message"

\* the configurations the sink is run with: compression left out, or "none"
RunConfigs ==
    {c \in Configs : /\ c.compression \in {None, Some(CompressionNone)}
                     /\ c.endpoint.some}

Init ==
    /\ cfg \in RunConfigs
    /\ schema = DefaultSchema
    /\ dest \in {"accept", "flaky"}
    /\ built = NotBuilt
    /\ input = <<>>
    /\ streamEnded = FALSE
    /\ outcomes = <<>>
    /\ buffer = <<>>
    /\ batches = <<>>
    /\ received = <<>>
    /\ acked = <<>>
    /\ runDone = FALSE
    /\ hc = HcNotPolled

-----------------------------------------------------------------------------
(* SinkConfig::build and DatadogLogsConfig::build_sink *)

\* build_sink: the TLS settings, the client, the healthcheck over a clone of
\* the service and the client, and the BatchedHttpSink; env is what the
\* environment makes of the TLS settings and of the client
build_sink(c, service, batch, settings, env) ==
    LET request_settings == unwrap_with(c.request, DefaultInFlightLimit)
    IN  IF env = "tls_error"
          THEN [NotBuilt EXCEPT !.state = "failed",
                                !.error = Some(Err("TlsError", <<"tls">>))]
        ELSE IF env = "client_error"
          THEN [NotBuilt EXCEPT !.state = "failed",
                                !.error = Some(Err("HttpError", <<"client">>))]
        ELSE [state |-> "ok", error |-> None, client |-> TRUE,
              healthcheck |-> TRUE, sink |-> TRUE, service |-> service,
              batch |-> batch, settings |-> Some(settings),
              limit |-> request_settings.in_flight_limit]

build_with_default_settings(c, env) ==
    LET bs == batch_settings(c)
        settings == IF bs.ok THEN bs.v ELSE batch_settings_ignoring_config(c).v
    IN  IF c.encoding = "json"
          THEN build_sink(c, "DatadogLogsJsonService", "JsonArrayBuffer",
                          settings, env)
          ELSE build_sink(c, "DatadogLogsTextService", "VecBuffer",
                          settings, env)

\* SinkConfig::build
build(c, env) ==
    IF c.encoding = "json"
      THEN LET bs == batch_settings(c)
           IN  IF ~bs.ok
                 THEN [NotBuilt EXCEPT !.state = "failed", !.error = Some(bs)]
                 ELSE build_sink(c, "DatadogLogsJsonService", "JsonArrayBuffer",
                                 bs.v, env)
      ELSE LET bs == batch_settings(c)
           IN  IF ~bs.ok
                 THEN [NotBuilt EXCEPT !.state = "failed", !.error = Some(bs)]
                 ELSE build_sink(c, "DatadogLogsTextService", "VecBuffer",
                                 bs.v, env)

Build ==
    /\ built.state = "config"
    /\ \E env \in {"ok", "tls_error", "client_error"} :
          built' = build(cfg, env)
    /\ UNCHANGED <<cfg, schema, dest, hc>>
    /\ UNCHANGED runVars

-----------------------------------------------------------------------------
(* healthcheck *)

HealthStatuses == {200, 401, 403, 429, 500}

StatusText(status) ==
    CASE status = 200 -> "200 OK"
      [] status = 401 -> "401 Unauthorized"
      [] status = 403 -> "403 Forbidden"
      [] status = 429 -> "429 Too Many Requests"
      [] status = 500 -> "500 Internal Server Error"

\* the response bodies the destination may return
HealthBodies ==
    { "", "not json", "[1]", "{}", "{\"error\":5}",
      "{\"error\":\"invalid token\"}", "{\"error\":\"forbidden\"}" }

JsonString(str) == [type |-> "string", s |-> str, fields |-> <<>>]

JsonOther(type) == [type |-> type, s |-> "", fields |-> <<>>]

JsonObject(fields) == [type |-> "object", s |-> "", fields |-> fields]

\* serde_json::from_slice of a response body
from_slice(body) ==
    CASE body = ""         -> Err("serde_json", <<"EOF while parsing a value">>)
      [] body = "not json" -> Err("serde_json", <<"expected ident">>)
      [] body = "[1]"      -> Ok(JsonOther("array"))
      [] body = "{}"       -> Ok(JsonObject(<<>>))
      [] body = "{\"error\":5}" ->
            Ok(JsonObject(Insert(<<>>, "error", JsonOther("number"))))
      [] body = "{\"error\":\"invalid token\"}" ->
            Ok(JsonObject(Insert(<<>>, "error", JsonString("invalid token"))))
      [] body = "{\"error\":\"forbidden\"}" ->
            Ok(JsonObject(Insert(<<>>, "error", JsonString("forbidden"))))

GenericAuthMessage == "Token is not valid, 401 returned."

\* the match on the status of the response (the lines after the body is read)
HealthOutcome(status, body) ==
    IF status = 200 THEN Ok(<<>>)
    ELSE IF status = 401
      THEN LET json == from_slice(body)
           IN  IF ~json.ok THEN json
               ELSE LET o == IF json.v.type = "object" THEN Some(json.v.fields)
                             ELSE None
                        e == IF o.some /\ "error" \in DOMAIN o.v
                               THEN Some(o.v["error"]) ELSE None
                        str == IF e.some /\ e.v.type = "string"
                                 THEN Some(e.v.s) ELSE None
                    IN  Err("message", <<UnwrapOr(str, GenericAuthMessage)>>)
    ELSE Err("message", <<"Server returned unexpected error status: ",
                          StatusText(status), " body: ", body>>)

HcRetryOnServerError(status) ==
    IF status \in {429, 500} THEN "start" ELSE "done"

\* where the healthcheck stands once the response is in: it returns
HcAfterResponse(status) == "done"

\* sink.build_request(Vec::new()), then client.send(req)
HcSend ==
    /\ built.healthcheck
    /\ hc.pc = "start"
    /\ LET req == service_build_request(cfg, <<>>)
       IN  IF ~req.ok
             THEN hc' = [hc EXCEPT !.pc = "done", !.result = Some(req)]
             ELSE hc' = [hc EXCEPT !.pc = "sent", !.req = Some(req.v),
                                   !.sent = @ + 1]
    /\ UNCHANGED <<cfg, schema, dest, built>>
    /\ UNCHANGED runVars

\* client.send(req).await? on a transport error
HcTransportError ==
    /\ hc.pc = "sent"
    /\ hc' = [hc EXCEPT !.pc = "done",
                        !.result = Some(Err("hyper", <<"transport">>))]
    /\ UNCHANGED <<cfg, schema, dest, built>>
    /\ UNCHANGED runVars

\* the response arrives, but reading its body fails
HcBodyError ==
    /\ hc.pc = "sent"
    /\ \E status \in HealthStatuses :
          hc' = [hc EXCEPT !.pc = "done",
                           !.response = Some([status |-> status, body |-> ""]),
                           !.result = Some(Err("hyper", <<"body">>))]
    /\ UNCHANGED <<cfg, schema, dest, built>>
    /\ UNCHANGED runVars

\* the response arrives with its body
HcResponse ==
    /\ hc.pc = "sent"
    /\ \E status \in HealthStatuses, body \in HealthBodies :
          hc' = [hc EXCEPT !.pc = HcAfterResponse(status),
                           !.response = Some([status |-> status, body |-> body]),
                           !.result = Some(HealthOutcome(status, body))]
    /\ UNCHANGED <<cfg, schema, dest, built>>
    /\ UNCHANGED runVars

\* the healthcheck of a sink that build has returned
HealthInit ==
    /\ cfg \in {c \in Configs : batch_settings(c).ok /\ ~c.request.in_flight_limit.some}
    /\ schema = DefaultSchema
    /\ dest = "accept"
    /\ built = build(cfg, "ok")
    /\ input = <<>>
    /\ streamEnded = FALSE
    /\ outcomes = <<>>
    /\ buffer = <<>>
    /\ batches = <<>>
    /\ received = <<>>
    /\ acked = <<>>
    /\ runDone = FALSE
    /\ hc = HcNotPolled

HealthNext == HcSend \/ HcTransportError \/ HcBodyError \/ HcResponse

HealthSpec == HealthInit /\ [][HealthNext]_vars

-----------------------------------------------------------------------------
(* The batched HTTP sink that build_sink constructs: BatchedHttpSink::new   *)
(* over the service, the batch buffer, the request settings and the acker  *)

\* the sizes of the lines the upstream delivers
LineSizes == {1, 60000, 102400}

\* the events the upstream may deliver as its i-th: a line of one of the
\* sizes
UpstreamEvents(sch, i) == { EventFrom(sch, Line(i, n)) : n \in LineSizes }

\* the size of one encoded item, as the batch buffer counts it
ItemSize(c, item) ==
    IF c.encoding = "json" THEN JsonObjectLen(item) ELSE ByteLen(item)

RECURSIVE ItemsSize(_, _)
ItemsSize(c, items) ==
    IF items = <<>> THEN 0
    ELSE ItemSize(c, Head(items)) + ItemsSize(c, Tail(items))

\* Batch buffer insert: Rejected for an item larger than the byte limit;
\* an item the buffered ones leave no room for finalizes them first; a buffer
\* that reaches a threshold is finalized at once (AcceptedAndFull).  Gives
\* the buffer afterwards, the batches finalized, and the outcome.
InsertItem(c, size, buf, item) ==
    LET n == ItemSize(c, item)
    IN  IF size.bytes.some /\ n > size.bytes.v
          THEN [buffer |-> buf, out |-> <<>>, outcome |-> "rejected"]
          ELSE LET overflow == /\ buf # <<>>
                               /\ size.bytes.some
                               /\ ItemsSize(c, buf) + n > size.bytes.v
                   b1 == IF overflow THEN <<item>> ELSE Append(buf, item)
                   pre == IF overflow THEN <<buf>> ELSE <<>>
                   full == \/ size.bytes.some /\ ItemsSize(c, b1) >= size.bytes.v
                           \/ size.events.some /\ Len(b1) >= size.events.v
               IN  [buffer |-> IF full THEN <<>> ELSE b1,
                    out |-> IF full THEN Append(pre, b1) ELSE pre,
                    outcome |-> "accepted"]

\* a finalized batch and the request the adapter builds from it, submitted to
\* the request policy layer; a batch whose request cannot be built has failed
NewBatch(c, items) ==
    LET r == service_build_request(c, items)
    IN  [items |-> items, req |-> r,
         state |-> IF r.ok THEN "queued" ELSE "failed", attempts |-> 0]

RECURSIVE Submit(_, _, _)
Submit(c, bs, out) ==
    IF out = <<>> THEN bs
    ELSE Submit(c, Append(bs, NewBatch(c, Head(out))), Tail(out))

Completed(b) == b.state \in {"ok", "failed"}

RECURSIVE AckCompletedInAnyOrder(_, _)
AckCompletedInAnyOrder(ackd, bs) ==
    LET S == {i \in 1..Len(bs) :
                 /\ Completed(bs[i])
                 /\ \A k \in 1..Len(ackd) : ackd[k].seq # i}
    IN  IF S = {} THEN ackd
        ELSE LET i == CHOOSE x \in S : \A y \in S : x <= y
             IN  AckCompletedInAnyOrder(
                     Append(ackd, [seq |-> i, ok |-> bs[i].state = "ok"]), bs)

\* the acknowledgment sequencer: completions wait until every batch submitted
\* earlier has completed; the contiguous prefix is then acknowledged
RECURSIVE Sequencer(_, _)
Sequencer(ackd, bs) ==
    LET i == Len(ackd) + 1
    IN  IF i <= Len(bs) /\ Completed(bs[i])
          THEN Sequencer(Append(ackd, [seq |-> i, ok |-> bs[i].state = "ok"]), bs)
          ELSE ackd

Queued == {i \in 1..Len(batches) : batches[i].state = "queued"}

InFlight == {i \in 1..Len(batches) : batches[i].state = "sent"}

\* an event arrives: encode it, insert the item, submit what is finalized
Event ==
    /\ built.sink
    /\ ~streamEnded
    /\ Queued = {}
    /\ Len(input) < MaxEvents
    /\ \E e \in UpstreamEvents(schema, Len(input) + 1) :
          LET item == encode_event(cfg, schema, e)
          IN  /\ input' = Append(input, e)
              /\ IF ~item.some
                   THEN /\ outcomes' = Append(outcomes, "dropped")
                        /\ UNCHANGED <<buffer, batches, acked>>
                   ELSE LET r == InsertItem(cfg, built.settings.v.size,
                                            buffer, item.v)
                            bs == Submit(cfg, batches, r.out)
                        IN  /\ outcomes' = Append(outcomes, r.outcome)
                            /\ buffer' = r.buffer
                            /\ batches' = bs
                            /\ acked' = Sequencer(acked, bs)
    /\ UNCHANGED <<cfg, schema, dest, built, hc, streamEnded, received, runDone>>

FinalizeDiscarding(buf) == <<>>

\* what the flush timer and the end of the stream finalize: the buffered
\* items, all of them, as one batch
Finalize(buf) == <<buf>>

\* the flush timer expires over a buffer that holds items
FlushTimer ==
    /\ built.sink
    /\ ~streamEnded
    /\ Queued = {}
    /\ buffer # <<>>
    /\ LET bs == Submit(cfg, batches, Finalize(buffer))
       IN  /\ batches' = bs
           /\ acked' = Sequencer(acked, bs)
    /\ buffer' = <<>>
    /\ UNCHANGED <<cfg, schema, dest, built, hc, input, outcomes, streamEnded,
                   received, runDone>>

\* the upstream stream ends: what is buffered is finalized and submitted
EndOfStream ==
    /\ built.sink
    /\ ~streamEnded
    /\ Queued = {}
    /\ streamEnded' = TRUE
    /\ LET bs == IF buffer = <<>> THEN batches
                 ELSE Submit(cfg, batches, Finalize(buffer))
       IN  /\ batches' = bs
           /\ acked' = Sequencer(acked, bs)
    /\ buffer' = <<>>
    /\ UNCHANGED <<cfg, schema, dest, built, hc, input, outcomes, received,
                   runDone>>

\* the concurrency limiter admits the batch that has waited longest
Dispatch ==
    /\ Queued # {}
    /\ Cardinality(InFlight) < built.limit
    /\ LET i == CHOOSE x \in Queued : \A y \in Queued : x <= y
       IN  batches' = [batches EXCEPT ![i].state = "sent", ![i].attempts = 1]
    /\ UNCHANGED <<cfg, schema, dest, built, hc, input, outcomes, streamEnded,
                   buffer, received, acked, runDone>>

\* the statuses the destination answers with
DestStatuses(d) == IF d = "accept" THEN {200} ELSE {200, 400, 503}

\* the retry policy: a retryable failure is retried up to the attempt cap
AfterFailure(b, retryable) ==
    IF retryable /\ b.attempts < MaxAttempts
      THEN [b EXCEPT !.attempts = @ + 1]
      ELSE [b EXCEPT !.state = "failed"]

AfterResponse(b, status) ==
    IF status = 200 THEN [b EXCEPT !.state = "ok"]
    ELSE AfterFailure(b, status \in {429} \cup 500..599)

\* the destination receives the request of a batch in flight and answers;
\* a request it answers with 200 is one it has accepted
Receive ==
    /\ \E i \in InFlight, status \in DestStatuses(dest) :
          LET bs == [batches EXCEPT ![i] = AfterResponse(@, status)]
          IN  /\ received' = IF status = 200
                               THEN Append(received, batches[i].req.v)
                               ELSE received
              /\ batches' = bs
              /\ acked' = Sequencer(acked, bs)
    /\ UNCHANGED <<cfg, schema, dest, built, hc, input, outcomes, streamEnded,
                   buffer, runDone>>

\* a request in flight is still pending when the timeout elapses
Timeout ==
    /\ dest = "flaky"
    /\ \E i \in InFlight :
          LET bs == [batches EXCEPT ![i] = AfterFailure(@, TRUE)]
          IN  /\ batches' = bs
              /\ acked' = Sequencer(acked, bs)
    /\ UNCHANGED <<cfg, schema, dest, built, hc, input, outcomes, streamEnded,
                   buffer, received, runDone>>

\* run returns: the stream has ended and every batch is drained
RunReturn ==
    /\ built.sink
    /\ streamEnded
    /\ ~runDone
    /\ \A i \in 1..Len(batches) : Completed(batches[i])
    /\ runDone' = TRUE
    /\ UNCHANGED <<cfg, schema, dest, built, hc, input, outcomes, streamEnded,
                   buffer, batches, received, acked>>

Next ==
    \/ Build
    \/ Event
    \/ FlushTimer
    \/ EndOfStream
    \/ Dispatch
    \/ Receive
    \/ Timeout
    \/ RunReturn

Spec == Init /\ [][Next]_vars

-----------------------------------------------------------------------------
(* The adapter on its own: encode_event on each event of a stream, then     *)
(* build_request on the items as one batch, for every configuration of the *)
(* encoding and the compression                                            *)

RECURSIVE EventSeqs(_, _)
EventSeqs(sch, n) ==
    IF n = 0 THEN {<<>>}
    ELSE LET shorter == EventSeqs(sch, n - 1)
         IN  shorter \cup
             {Append(es, e) : es \in {x \in shorter : Len(x) = n - 1},
                              e \in UpstreamEvents(sch, n)}

RequestInit ==
    /\ cfg \in {c \in Configs : /\ ~c.batch.max_events.some
                                /\ ~c.batch.max_bytes.some
                                /\ ~c.request.in_flight_limit.some}
    /\ schema \in Schemas
    /\ dest = "accept"
    /\ built = NotBuilt
    /\ input \in EventSeqs(schema, MaxEvents) \ {<<>>}
    /\ streamEnded = FALSE
    /\ outcomes = <<>>
    /\ buffer = <<>>
    /\ batches = <<>>
    /\ received = <<>>
    /\ acked = <<>>
    /\ runDone = FALSE
    /\ hc = HcNotPolled

\* encode_event on the next event of the stream
EncodeNext ==
    /\ batches = <<>>
    /\ Len(buffer) < Len(input)
    /\ LET item == encode_event(cfg, schema, input[Len(buffer) + 1])
       IN  /\ item.some
           /\ buffer' = Append(buffer, item.v)
    /\ UNCHANGED <<cfg, schema, dest, built, hc, input, streamEnded, outcomes,
                   batches, received, acked, runDone>>

\* build_request on the items, as one batch
BuildRequest ==
    /\ batches = <<>>
    /\ Len(buffer) = Len(input)
    /\ batches' = <<NewBatch(cfg, buffer)>>
    /\ UNCHANGED <<cfg, schema, dest, built, hc, input, streamEnded, outcomes,
                   buffer, received, acked, runDone>>

RequestNext == EncodeNext \/ BuildRequest

RequestSpec == RequestInit /\ [][RequestNext]_vars

-----------------------------------------------------------------------------
(* Construction, the healthcheck and the sink together: every batch         *)
(* configuration, with the healthcheck polled while the sink runs          *)

BuildConfigs ==
    {c \in RunConfigs :
        /\ c.compression.some
        /\ batch_settings(c).ok =>
              /\ ~c.batch.max_events.some /\ ~c.batch.max_bytes.some
              /\ c.request.in_flight_limit.some}

BuildInit ==
    /\ cfg \in BuildConfigs
    /\ schema = DefaultSchema
    /\ dest \in {"accept", "flaky"}
    /\ built = NotBuilt
    /\ input = <<>>
    /\ streamEnded = FALSE
    /\ outcomes = <<>>
    /\ buffer = <<>>
    /\ batches = <<>>
    /\ received = <<>>
    /\ acked = <<>>
    /\ runDone = FALSE
    /\ hc = HcNotPolled

BuildNext == Next \/ HealthNext

BuildSpec == BuildInit /\ [][BuildNext]_vars

-----------------------------------------------------------------------------
(* Claims *)

\* the body the adapter hands to DatadogLogsConfig::build_request for a batch
PlainBody(c, items) ==
    IF c.encoding = "json" THEN ToVec(items) ELSE Flatten(items)

HasHeader(req, name) == name \in DOMAIN req.headers

\* C4: compression is opt-in: a sink whose configuration does not specify
\* compression (or states "none") sends the batch body untransformed and sets
\* no Content-Encoding header; only a configuration that enables gzip has the
\* body transformed and Content-Encoding: gzip set, at level 6 when it gives
\* no level.
C4_CompressionIsOptIn ==
    \A i \in 1..Len(batches) :
        LET b == batches[i]
            plain == PlainBody(cfg, b.items)
            enabled == cfg.compression.some /\ cfg.compression.v.kind = "gzip"
        IN  /\ b.req.ok
            /\ ~enabled =>
                  /\ b.req.v.body = plain
                  /\ ~HasHeader(b.req.v, "Content-Encoding")
            /\ enabled =>
                  /\ b.req.v.body =
                        GzEncode(plain, UnwrapOr(cfg.compression.v.level, 6))
                  /\ HasHeader(b.req.v, "Content-Encoding")
                  /\ b.req.v.headers["Content-Encoding"] = "gzip"

HcResponded == hc.pc = "done" /\ hc.response.some /\ hc.result.some

HcReadBody == HcResponded /\ hc.result.v # Err("hyper", <<"body">>)

\* C5: the healthcheck treats 401 and 403 alike as an authentication failure:
\* for either status, a response body that is a JSON object with a string
\* `error` field makes the healthcheck fail with exactly that field's value.
C5_AuthFailureUsesErrorField ==
    (/\ HcReadBody
     /\ hc.response.v.status \in {401, 403}
     /\ hc.response.v.body \in {"{\"error\":\"invalid token\"}",
                                "{\"error\":\"forbidden\"}"})
    => /\ ~hc.result.v.ok
       /\ hc.result.v.msg =
            <<from_slice(hc.response.v.body).v.fields["error"].s>>

\* C6: an authentication-failure response whose body gives no usable message
\* (empty, not JSON, JSON but no object, an object without a string `error`)
\* makes the healthcheck fail with the generic credential message, never with
\* an error of another kind such as a body-parsing error.
C6_AuthFailureWithoutMessageIsGeneric ==
    (/\ HcReadBody
     /\ hc.response.v.status = 401
     /\ hc.response.v.body \in {"", "not json", "[1]", "{}", "{\"error\":5}"})
    => /\ ~hc.result.v.ok
       /\ hc.result.v.kind = "message"
       /\ hc.result.v.msg = <<GenericAuthMessage>>

\* C7: one healthcheck run builds a zero-item request through the adapter
\* (which succeeds for the JSON and for the text adapter) and sends exactly
\* one request: whatever the outcome, no second request is sent, and the
\* outcome is decided by that single response.
C7_HealthcheckSendsOnce ==
    /\ hc.sent <= 1
    /\ hc.pc # "start" =>
          /\ hc.sent = 1
          /\ hc.req = Some(service_build_request(cfg, <<>>).v)
          /\ hc.req.v.body \in {PlainBody(cfg, <<>>),
                                GzEncode(PlainBody(cfg, <<>>), 6),
                                GzEncode(PlainBody(cfg, <<>>), 9)}
    /\ HcReadBody =>
          hc.result.v = HealthOutcome(hc.response.v.status, hc.response.v.body)

\* a healthcheck that was answered 500 (a status the request policy would
\* retry) has returned, after one request
C7_Witness ==
    /\ hc.pc = "done"
    /\ hc.response.some
    /\ hc.response.v.status = 500
    /\ hc.sent = 1
    /\ cfg.encoding = "json"


\* the item the adapter encodes the k-th event of the stream to
ItemOf(k) == encode_event(cfg, schema, input[k]).v

RECURSIVE AcceptedItemsUpTo(_)
AcceptedItemsUpTo(k) ==
    IF k = 0 THEN <<>>
    ELSE IF outcomes[k] = "accepted"
           THEN Append(AcceptedItemsUpTo(k - 1), ItemOf(k))
           ELSE AcceptedItemsUpTo(k - 1)

\* the items the batch buffer accepted, in the order of the stream
AcceptedItems == AcceptedItemsUpTo(Len(input))

RECURSIVE BatchItemsUpTo(_)
BatchItemsUpTo(i) ==
    IF i = 0 THEN <<>> ELSE BatchItemsUpTo(i - 1) \o batches[i].items

\* the items of the finalized batches, in submission order
BatchItems == BatchItemsUpTo(Len(batches))

Range(f) == {f[x] : x \in DOMAIN f}

\* the destination has accepted a request that carries the item
Delivered(item) ==
    \E i \in 1..Len(batches), j \in 1..Len(received) :
        /\ item \in Range(batches[i].items)
        /\ batches[i].state = "ok"
        /\ received[j] = batches[i].req.v
        /\ received[j].body \in
              {PlainBody(cfg, batches[i].items),
               GzEncode(PlainBody(cfg, batches[i].items), DefaultGzipLevel)}

\* C1: the acknowledgments delivered to the upstream acker are in exactly
\* the order the batches were submitted, whatever the order their requests
\* complete in: the k-th acknowledgment is that of the k-th batch, which has
\* completed, so no batch is acknowledged before every earlier one is.
C1_AcksInSubmissionOrder ==
    /\ Len(acked) <= Len(batches)
    /\ \A k \in 1..Len(acked) :
          /\ acked[k].seq = k
          /\ Completed(batches[k])
          /\ acked[k].ok = (batches[k].state = "ok")

\* two batches were acknowledged whose requests completed in the reverse of
\* the order they were submitted in
C1_Witness ==
    /\ Len(acked) = 2
    /\ Len(received) = 2
    /\ batches[1].req.v # batches[2].req.v
    /\ received[1] = batches[2].req.v
    /\ received[2] = batches[1].req.v

\* the configured thresholds of the batch: the byte size defaults to 100 KiB
ConfiguredMaxBytes == UnwrapOr(cfg.batch.max_bytes, 100 * 1024)

WithinLimits(items) ==
    /\ ItemsSize(cfg, items) <= ConfiguredMaxBytes
    /\ cfg.batch.max_events.some => Len(items) <= cfg.batch.max_events.v

\* C2: every finalized batch handed to build_request holds at most the
\* configured number of items and at most the configured number of bytes
\* (100 KiB by default); an item that alone exceeds the byte limit is rejected
\* at insert and is in no batch.
C2_BatchesWithinLimits ==
    /\ WithinLimits(buffer)
    /\ \A i \in 1..Len(batches) :
          /\ batches[i].items # <<>>
          /\ WithinLimits(batches[i].items)
    /\ \A k \in 1..Len(input) :
          ItemSize(cfg, ItemOf(k)) > ConfiguredMaxBytes =>
              /\ outcomes[k] = "rejected"
              /\ ItemOf(k) \notin Range(BatchItems \o buffer)

\* one item was rejected as too large and another is in a finalized batch
C2_Witness ==
    /\ \E k \in 1..Len(input) : outcomes[k] = "rejected"
    /\ \E k \in 1..Len(input) : outcomes[k] = "accepted"
    /\ Len(batches) >= 1

\* C3 as stated: once run has returned against a destination that accepts
\* requests, every encoded event has been delivered to the destination.
C3_EveryEncodedEventDelivered ==
    (runDone /\ dest = "accept") =>
        \A k \in 1..Len(input) :
            encode_event(cfg, schema, input[k]).some => Delivered(ItemOf(k))

\* C3, amended: when the stream ends, what is buffered is finalized and
\* submitted, not discarded; run returns only once every batch has completed
\* and been acknowledged; and against a destination that accepts requests,
\* every item the batch buffer accepted has been delivered by then.
C3_FlushAndDrainBeforeReturn ==
    /\ built.sink => BatchItems \o buffer = AcceptedItems
    /\ streamEnded => buffer = <<>>
    /\ runDone =>
          /\ streamEnded
          /\ \A i \in 1..Len(batches) : Completed(batches[i])
          /\ Len(acked) = Len(batches)
          /\ dest = "accept" =>
                \A k \in 1..Len(AcceptedItems) : Delivered(AcceptedItems[k])

\* run has returned after the end of the stream finalized a buffer that held
\* an item but had reached no threshold
C3_Witness ==
    /\ runDone
    /\ dest = "accept"
    /\ ~cfg.batch.max_events.some
    /\ Len(batches) = 1
    /\ Len(batches[1].items) = 1
    /\ Len(received) = 1

\* the smoke_text scenario
TextScenario ==
    /\ cfg.encoding = "text"
    /\ cfg.compression = Some(CompressionNone)
    /\ cfg.batch.max_events = Some(1)
    /\ dest = "accept"

\* the k-th input line followed by a newline
LineNl(k) == input[k][schema.message_key] \o Run(NL, 1)

RECURSIVE AcceptedLinesUpTo(_)
AcceptedLinesUpTo(k) ==
    IF k = 0 THEN <<>>
    ELSE IF outcomes[k] = "accepted"
           THEN Append(AcceptedLinesUpTo(k - 1), LineNl(k))
           ELSE AcceptedLinesUpTo(k - 1)

Bodies(reqs) == [i \in 1..Len(reqs) |-> reqs[i].body]

JsonScenario ==
    /\ cfg.encoding = "json"
    /\ cfg.batch.max_events = Some(1)
    /\ dest = "accept"

\* C9, for events whose items are within the byte limit: JSON encoding and
\* max_events = 1: every event is encoded, its message under the field
\* `message`; each of the N events makes one request whose body is a JSON
\* array of exactly one element, and the i-th request received has the i-th
\* input string as that element's `message`.
C9_OneElementArrayPerEvent ==
    (JsonScenario /\ \A k \in 1..Len(input) : outcomes[k] = "accepted") =>
        /\ \A k \in 1..Len(input) :
              /\ encode_event(cfg, schema, input[k]).some
              /\ "message" \in DOMAIN ItemOf(k)
              /\ ItemOf(k)["message"] = input[k][schema.message_key]
        /\ runDone =>
              /\ Len(received) = Len(input)
              /\ \A i \in 1..Len(received) :
                    /\ Len(received[i].body) = 1
                    /\ received[i].body[1].t = "json"
                    /\ Len(received[i].body[1].v) = 1
                    /\ received[i].body[1].v[1]["message"] =
                          input[i][schema.message_key]

InvalidBatchConfig ==
    \/ cfg.batch.max_bytes.some /\ cfg.batch.max_bytes.v < 1
    \/ cfg.batch.max_events.some /\ cfg.batch.max_events.v < 1

\* C10: construction fails fast on an invalid batch configuration: when
\* parsing the batch settings returns an error, build returns that error, for
\* either encoding; no sink, no healthcheck and no HTTP client is created and
\* no request is ever sent.
C10_InvalidBatchConfigFailsFast ==
    InvalidBatchConfig =>
        /\ ~batch_settings(cfg).ok
        /\ ~built.sink /\ ~built.healthcheck /\ ~built.client
        /\ built.state # "config" =>
              /\ built.state = "failed"
              /\ built.error = Some(batch_settings(cfg))
              /\ built.error.v.kind = "BatchError"
        /\ batches = <<>> /\ received = <<>> /\ input = <<>>
        /\ hc.sent = 0 /\ hc.pc = "start"

\* build has returned the error of a batch byte threshold below its minimum
C10_Witness ==
    /\ built.state = "failed"
    /\ cfg.batch.max_bytes = Some(0)
    /\ built.error.some
    /\ built.error.v.msg = <<"InvalidMaxBytes">>


RECURSIVE TextLenUpTo(_)
\* the bytes of the first k input lines, each with its newline
TextLenUpTo(k) ==
    IF k = 0 THEN 0
    ELSE TextLenUpTo(k - 1) + ByteLen(input[k][schema.message_key]) + 1

\* the length of the batch body before any compression
UncompressedLen(items) ==
    IF cfg.encoding = "json" THEN JsonArrayLen(items)
    ELSE TextLenUpTo(Len(items))

\* the body is a gzip stream
IsGzipBody(body) == Len(body) = 1 /\ body[1].t = "gzip"

\* C11: for every request build_request produces, compressed or not, the
\* Content-Length header equals the byte length of the body transmitted (of
\* the gzip stream when gzip is applied, not of the uncompressed batch body),
\* and Content-Encoding: gzip is present if and only if that body was
\* gzip-compressed.
C11_ContentLengthOfTransmittedBody ==
    \A i \in 1..Len(batches) :
        LET r == batches[i].req.v
            plain == PlainBody(cfg, batches[i].items)
            n == UncompressedLen(batches[i].items)
        IN  /\ batches[i].req.ok
            /\ IsGzipBody(r.body) \/ r.body = plain
            /\ IsGzipBody(r.body) =>
                  /\ r.body[1].data = plain
                  /\ r.content_length = 18 + 5 + n
                  /\ r.content_length # n
            /\ ~IsGzipBody(r.body) => r.content_length = n
            /\ HasHeader(r, "Content-Encoding") <=> IsGzipBody(r.body)
            /\ HasHeader(r, "Content-Encoding") =>
                  r.headers["Content-Encoding"] = "gzip"

\* a request was built from two text lines with gzip at a configured level
C11_Witness ==
    /\ Len(batches) = 1
    /\ cfg.encoding = "text"
    /\ cfg.compression = Some(Gzip(Some(9)))
    /\ Len(batches[1].items) = 2
    /\ IsGzipBody(batches[1].req.v.body)
    /\ batches[1].req.v.content_length = 18 + 5 + TextLenUpTo(2)

=============================================================================
